---- MODULE Spec2Model ----
(***************************************************************************)
(* Model of the analysis notebook                                          *)
(*   Notebooks-completed/05-Advanced-analysis-pandas-flopy.ipynb           *)
(*                                                                         *)
(* The notebook is a sequence of cells; each cell that changes the         *)
(* notebook's state is one action.  Three data flows are modelled:         *)
(*   - the gage pipeline    (run solver, read gage file, map times,        *)
(*                           resolve periods/steps, tag, last step)        *)
(*   - the observed-data pipeline (quantile, filter, monthly mean, align)  *)
(*   - the streamflow-routing pipeline (segment filter, distance, index)   *)
(*                                                                         *)
(* Numbers.  A missing value (numpy.nan / pandas.NaT) is the sentinel      *)
(* NaN / NaT; every real value of the model is >= 0.  Elapsed times of the *)
(* gage file are counted in ticks of 1/TicksPerDay day, timestamps in      *)
(* hours since 2014-01-01T00:00, observed dates in days since 2014-01-01.  *)
(***************************************************************************)
EXTENDS Integers, Sequences, FiniteSets

VARIABLES
    pc,            \* gage pipeline: the next cell to execute
    nstp,          \* m.dis.nstp.array
    disk,          \* the gage file in model_ws: [exists, rows]
    runOk,         \* outcome of the last m.run_model(): "none", "ok", "failed", "raised"
    ggo,           \* the gage DataFrame: sequence of rows
    ggoIndex,      \* ggo.index: [kind, labels]
    kstp,          \* the list kstp
    kper,          \* the list kper
    ggo_last,      \* the DataFrame ggo_last: sequence of rows
    ggo_lastIndex, \* ggo_last.index (labels)
    pcO,           \* observed-data pipeline: the next cell to execute
    df,            \* observed data: rows [date, val] (df.index, df[4])
    qthresh,       \* the threshold quantile, a fraction [num, den]
    quant,         \* df[4].quantile(qthresh), a fraction [num, den] or NoQuant
    dfq,           \* the retained rows
    dfm,           \* the monthly means: rows [sum, n], the mean being sum / n
    dfmIndex,      \* dfm.index: [kind, labels]
    pcS,           \* streamflow-routing pipeline: the next cell to execute
    rd,            \* m.sfr.reach_data: rows [iseg, rchlen]
    sfrdata,       \* sfrobj.df: rows [segment, kstpkper, Qout, Qaquifer]
    seg11,         \* the selection seg11: rows [Qout, Qaquifer]
    seg11Index,    \* seg11.index
    dist           \* the list dist

gageVars == <<pc, nstp, disk, runOk, ggo, ggoIndex, kstp, kper, ggo_last, ggo_lastIndex>>
obsVars == <<pcO, df, qthresh, quant, dfq, dfm, dfmIndex>>
sfrVars == <<pcS, rd, sfrdata, seg11, seg11Index, dist>>
vars == <<gageVars, obsVars, sfrVars>>

-----------------------------------------------------------------------------
(* Bounds of the model *)

\* longest step-count sequence
MaxPer == 2
\* largest number of gage-output rows (sum of the step counts)
MaxRows == 3

-----------------------------------------------------------------------------
(* Values *)

\* numpy.nan: what read_csv stores for a missing or "NaN" field
NaN == -1
\* pandas.NaT: the missing timestamp
NaT == -1

\* elapsed time is counted in half days, so that 59.5 days is a value
TicksPerDay == 2
HoursPerDay == 24

\* days before the first day of each month of a non-leap year (2014, 2015)
CumDays == <<0, 31, 59, 90, 120, 151, 181, 212, 243, 273, 304, 334, 365>>
DaysPerYear == CumDays[13]
EpochYear == 2014

\* the month (1..12) of day-of-year doy (0-based)
MonthOfDoy(doy) == CHOOSE m \in 1..12 : CumDays[m] <= doy /\ doy < CumDays[m + 1]

\* calendar fields of a day count since 2014-01-01
YearOfDay(d) == EpochYear + (d \div DaysPerYear)
MonthOfDay(d) == MonthOfDoy(d % DaysPerYear)
DomOfDay(d) == (d % DaysPerYear) - CumDays[MonthOfDay(d)] + 1

\* pd.Timestamp('Y-M-D') as hours since 2014-01-01T00:00
Timestamp(y, m, d) == ((y - EpochYear) * DaysPerYear + CumDays[m] + (d - 1)) * HoursPerDay

\* the calendar reading of a timestamp
Calendar(ts) ==
    [year |-> YearOfDay(ts \div HoursPerDay),
     month |-> MonthOfDay(ts \div HoursPerDay),
     day |-> DomOfDay(ts \div HoursPerDay),
     hour |-> ts % HoursPerDay]

\* start_datetime = '2014-01-01'; start_ts = pd.Timestamp(start_datetime)
start_ts == Timestamp(2014, 1, 1)

RECURSIVE SumSeq(_)
SumSeq(s) == IF s = <<>> THEN 0 ELSE s[1] + SumSeq(Tail(s))

-----------------------------------------------------------------------------
(* The external solver and the gage file it writes *)

\* step lengths the solver may run with, in ticks: half a day, 59.5 days
DtVals == {1, 119}

\* what the solver may write in the stage and flow fields of a row:
\* both values, a missing flow (diverged reach), or no value at all
RowKinds == {"ok", "noflow", "novalue"}

StageAt(r) == 100 + r
FlowAt(r) == 10 * r

\* one row of the gage file: elapsed time, stage, flow
FileRow(r, dt, kind) ==
    [time |-> r * dt,
     stage |-> IF kind = "novalue" THEN NaN ELSE StageAt(r),
     flow |-> IF kind = "ok" THEN FlowAt(r) ELSE NaN]

\* the files of n rows the solver can write: times strictly increasing
GageFiles(n) ==
    { [r \in 1..n |-> FileRow(r, dt, kinds[r])] : dt \in DtVals, kinds \in [1..n -> RowKinds] }

NoFile == [exists |-> FALSE, rows |-> <<>>]

-----------------------------------------------------------------------------
(* Stress-Period Resolver: the loop of cell 290-296 *)

\* kstp.append(j); kper.append(i)
AppendPair(lists, i, j) ==
    [kstp |-> Append(lists.kstp, j), kper |-> Append(lists.kper, i)]

\* a variant of the inner loop that runs one step too far: range(n + 1)
RECURSIVE RangeLoopInclusive(_, _, _, _)
RangeLoopInclusive(lists, i, j, n) ==
    IF j <= n THEN RangeLoopInclusive(AppendPair(lists, i, j), i, j + 1, n) ELSE lists

\* for j in range(n): ...
RECURSIVE RangeLoop(_, _, _, _)
RangeLoop(lists, i, j, n) ==
    IF j < n THEN RangeLoop(AppendPair(lists, i, j), i, j + 1, n) ELSE lists

\* for i, nstp in enumerate(arr): ...   (i is Python's 0-based position)
RECURSIVE EnumerateLoop(_, _, _)
EnumerateLoop(lists, i, arr) ==
    IF i < Len(arr)
    THEN EnumerateLoop(RangeLoop(lists, i, 0, arr[i + 1]), i + 1, arr)
    ELSE lists

Resolve(arr) == EnumerateLoop([kstp |-> <<>>, kper |-> <<>>], 0, arr)

-----------------------------------------------------------------------------
(* Time Mapper: cell 252-253 *)

\* a variant of the conversion that drops the fraction of a day
ToTimedeltaWholeDays(x) == IF x = NaN THEN NaT ELSE (x \div TicksPerDay) * HoursPerDay

\* pd.to_timedelta(x, unit='D'): days to a duration (hours); nan gives NaT
ToTimedelta(x) == IF x = NaN THEN NaT ELSE (x * HoursPerDay) \div TicksPerDay

\* timedelta + start_ts
AddTimestamp(td, ts) == IF td = NaT THEN NaT ELSE td + ts

NewRow(f) ==
    [time |-> f.time, stage |-> f.stage, flow |-> f.flow,
     datetime |-> NaT, kstp |-> NaN, kper |-> NaN]

ColumnOf(frame, c) == [r \in 1..Len(frame) |-> frame[r][c]]

-----------------------------------------------------------------------------
(* DataFrame operations of pandas used by the gage pipeline *)

\* df[c] = values, for a list: pandas raises ValueError when the lengths
\* differ, except on a frame with no rows, which takes its index from the
\* list (DataFrame._ensure_valid_index) and fills the other columns with nan
SetItemRaises(frame, values) == Len(frame) > 0 /\ Len(values) # Len(frame)

EmptyRow == [time |-> NaN, stage |-> NaN, flow |-> NaN,
             datetime |-> NaT, kstp |-> NaN, kper |-> NaN]

\* the rows of the frame the assignment writes into
SetItemFrame(frame, values) ==
    IF Len(frame) = 0 THEN [r \in 1..Len(values) |-> EmptyRow] ELSE frame

\* the index of the frame after the assignment
SetItemIndex(frame, idx, values) ==
    IF Len(frame) = 0 /\ Len(values) > 0
    THEN [kind |-> "range", labels |-> [r \in 1..Len(values) |-> r - 1]]
    ELSE idx

SetItem(frame, c, values) ==
    LET base == SetItemFrame(frame, values)
    IN  [r \in 1..Len(base) |-> [base[r] EXCEPT ![c] = values[r]]]

\* the group keys of groupby: the distinct non-null keys, ascending
RECURSIVE SortedSeq(_)
SortedSeq(S) ==
    IF S = {} THEN <<>>
    ELSE LET m == CHOOSE x \in S : \A y \in S : x <= y
         IN  <<m>> \o SortedSeq(S \ {m})

GroupKeys(keys) == SortedSeq({keys[r] : r \in 1..Len(keys)} \ {NaN})

\* GroupBy.last() of one column: the last value of the group that is not
\* null, nan when the group holds none
LastValid(frame, keys, k, c) ==
    LET valid == {r \in 1..Len(frame) : keys[r] = k /\ frame[r][c] # NaN}
    IN  IF valid = {} THEN NaN
        ELSE frame[CHOOSE r \in valid : \A q \in valid : q <= r][c]

\* ggo.groupby(ggo.kper).last(): one row per key, each column on its own
GroupByLast(frame, keys) ==
    LET ks == GroupKeys(keys)
    IN  [g \in 1..Len(ks) |->
            [time |-> LastValid(frame, keys, ks[g], "time"),
             stage |-> LastValid(frame, keys, ks[g], "stage"),
             flow |-> LastValid(frame, keys, ks[g], "flow"),
             datetime |-> LastValid(frame, keys, ks[g], "datetime"),
             kstp |-> LastValid(frame, keys, ks[g], "kstp"),
             kper |-> ks[g]]]

-----------------------------------------------------------------------------
(* The gage pipeline, cell by cell *)

\* the parts of the notebook a specification leaves out stay idle
IdleGage ==
    /\ pc = "idle"
    /\ nstp = <<>>
    /\ disk = NoFile
    /\ runOk = "none"
    /\ ggo = <<>>
    /\ ggoIndex = [kind |-> "range", labels |-> <<>>]
    /\ kstp = <<>>
    /\ kper = <<>>
    /\ ggo_last = <<>>
    /\ ggo_lastIndex = <<>>

IdleObs ==
    /\ pcO = "idle"
    /\ df = <<>>
    /\ qthresh = [num |-> 1, den |-> 2]
    /\ quant = [num |-> NaN, den |-> 1]
    /\ dfq = <<>>
    /\ dfm = <<>>
    /\ dfmIndex = [kind |-> "month", labels |-> <<>>]

IdleSfr ==
    /\ pcS = "idle"
    /\ rd = <<>>
    /\ sfrdata = <<>>
    /\ seg11 = <<>>
    /\ seg11Index = <<>>
    /\ dist = <<>>

NstpArrays ==
    {a \in UNION {[1..n -> 0..MaxRows] : n \in 1..MaxPer} : SumSeq(a) <= MaxRows}

NoIndex == [kind |-> "range", labels |-> <<>>]

InitGage ==
    /\ pc = "run"
    /\ nstp \in NstpArrays
    /\ disk = NoFile
    /\ runOk = "none"
    /\ ggo = <<>>
    /\ ggoIndex = NoIndex
    /\ kstp = <<>>
    /\ kper = <<>>
    /\ ggo_last = <<>>
    /\ ggo_lastIndex = <<>>
    /\ IdleObs
    /\ IdleSfr

\* m.run_model(): the solver completes and writes one row per time step
RunModelOk ==
    /\ pc = "run"
    /\ \E f \in GageFiles(SumSeq(nstp)) : disk' = [exists |-> TRUE, rows |-> f]
    /\ runOk' = "ok"
    /\ pc' = "read"
    /\ UNCHANGED <<nstp, ggo, ggoIndex, kstp, kper, ggo_last, ggo_lastIndex>>
    /\ UNCHANGED <<obsVars, sfrVars>>

\* m.run_model(): the solver stops part way (no convergence); run_model
\* returns success = False, which the cell discards; the file holds the
\* rows written so far
RunModelFailPartial ==
    /\ pc = "run"
    /\ \E n \in 0..(SumSeq(nstp) - 1) :
         \E f \in GageFiles(n) : disk' = [exists |-> TRUE, rows |-> f]
    /\ runOk' = "failed"
    /\ pc' = "read"
    /\ UNCHANGED <<nstp, ggo, ggoIndex, kstp, kper, ggo_last, ggo_lastIndex>>
    /\ UNCHANGED <<obsVars, sfrVars>>

\* m.run_model(): the solver stops before it opens its output files;
\* run_model returns success = False; model_ws is left as it was
RunModelFailEarly ==
    /\ pc = "run"
    /\ runOk' = "failed"
    /\ pc' = "read"
    /\ UNCHANGED <<nstp, disk, ggo, ggoIndex, kstp, kper, ggo_last, ggo_lastIndex>>
    /\ UNCHANGED <<obsVars, sfrVars>>

\* m.run_model(): the executable is not found; run_model raises
RunModelRaise ==
    /\ pc = "run"
    /\ runOk' = "raised"
    /\ pc' = "halted"
    /\ UNCHANGED <<nstp, disk, ggo, ggoIndex, kstp, kper, ggo_last, ggo_lastIndex>>
    /\ UNCHANGED <<obsVars, sfrVars>>

\* ggo = pd.read_csv(gagefile, skiprows=1, header=None, names=[...]): one
\* row per data line; as the column names are passed, a file with no data
\* line gives a frame with the three columns and no row
ReadGage ==
    /\ pc = "read"
    /\ disk.exists
    /\ ggo' = [r \in 1..Len(disk.rows) |-> NewRow(disk.rows[r])]
    /\ ggoIndex' = [kind |-> "range", labels |-> [r \in 1..Len(disk.rows) |-> r - 1]]
    /\ pc' = "timemap"
    /\ UNCHANGED <<nstp, disk, runOk, kstp, kper, ggo_last, ggo_lastIndex>>
    /\ UNCHANGED <<obsVars, sfrVars>>

\* pd.read_csv raises FileNotFoundError
ReadGageNotFound ==
    /\ pc = "read"
    /\ ~disk.exists
    /\ pc' = "error"
    /\ UNCHANGED <<nstp, disk, runOk, ggo, ggoIndex, kstp, kper, ggo_last, ggo_lastIndex>>
    /\ UNCHANGED <<obsVars, sfrVars>>

\* ggo['datetime'] = pd.to_timedelta(ggo.time, unit='D') + start_ts
\* ggo.index = ggo.datetime
TimeMap ==
    /\ pc = "timemap"
    /\ ggo' = [r \in 1..Len(ggo) |->
                  [ggo[r] EXCEPT !.datetime = AddTimestamp(ToTimedelta(ggo[r].time), start_ts)]]
    /\ ggoIndex' = [kind |-> "datetime", labels |-> ColumnOf(ggo', "datetime")]
    /\ pc' = "resolve"
    /\ UNCHANGED <<nstp, disk, runOk, kstp, kper, ggo_last, ggo_lastIndex>>
    /\ UNCHANGED <<obsVars, sfrVars>>

\* kstp = []; kper = []; for i, nstp in enumerate(m.dis.nstp.array): ...
Resolver ==
    /\ pc = "resolve"
    /\ kstp' = Resolve(nstp).kstp
    /\ kper' = Resolve(nstp).kper
    /\ pc' = "tag"
    /\ UNCHANGED <<nstp, disk, runOk, ggo, ggoIndex, ggo_last, ggo_lastIndex>>
    /\ UNCHANGED <<obsVars, sfrVars>>

\* ggo['kstp'] = kstp; ggo['kper'] = kper
Tag ==
    /\ pc = "tag"
    /\ ~SetItemRaises(ggo, kstp)
    /\ LET one == SetItem(ggo, "kstp", kstp)
       IN  /\ ~SetItemRaises(one, kper)
           /\ ggo' = SetItem(one, "kper", kper)
    /\ ggoIndex' = SetItemIndex(ggo, ggoIndex, kstp)
    /\ pc' = "last"
    /\ UNCHANGED <<nstp, disk, runOk, kstp, kper, ggo_last, ggo_lastIndex>>
    /\ UNCHANGED <<obsVars, sfrVars>>

\* ggo['kstp'] = kstp raises ValueError: the frame is left as it was
TagRaises ==
    /\ pc = "tag"
    /\ SetItemRaises(ggo, kstp)
    /\ pc' = "error"
    /\ UNCHANGED <<nstp, disk, runOk, ggo, ggoIndex, kstp, kper, ggo_last, ggo_lastIndex>>
    /\ UNCHANGED <<obsVars, sfrVars>>

\* ggo_last = ggo.groupby(ggo.kper).last(); ggo_last.index = ggo_last.datetime
LastStep ==
    /\ pc = "last"
    /\ ggo_last' = GroupByLast(ggo, ColumnOf(ggo, "kper"))
    /\ ggo_lastIndex' = ColumnOf(ggo_last', "datetime")
    /\ pc' = "done"
    /\ UNCHANGED <<nstp, disk, runOk, ggo, ggoIndex, kstp, kper>>
    /\ UNCHANGED <<obsVars, sfrVars>>

\* the operator runs the notebook again from the top: the kernel's
\* variables are rebuilt, the files in model_ws stay
Rerun ==
    /\ pc \in {"done", "error", "halted"}
    /\ pc' = "run"
    /\ runOk' = "none"
    /\ ggo' = <<>>
    /\ ggoIndex' = NoIndex
    /\ kstp' = <<>>
    /\ kper' = <<>>
    /\ ggo_last' = <<>>
    /\ ggo_lastIndex' = <<>>
    /\ UNCHANGED <<nstp, disk>>
    /\ UNCHANGED <<obsVars, sfrVars>>

NextGage ==
    \/ RunModelOk
    \/ RunModelFailPartial
    \/ RunModelFailEarly
    \/ RunModelRaise
    \/ ReadGage
    \/ ReadGageNotFound
    \/ TimeMap
    \/ Resolver
    \/ Tag
    \/ TagRaises
    \/ LastStep
    \/ Rerun

SpecGage == InitGage /\ [][NextGage]_vars

-----------------------------------------------------------------------------
(* Properties of the gage pipeline *)

\* the number of rows of the periods before period p (0-based)
RowsBefore(p) == SumSeq(SubSeq(nstp, 1, p))

\* the lists kstp and kper have been built
Resolved == pc \in {"tag", "last", "done"}

\* C1: for every sequence of non-negative step counts the resolver's lists
\* are the flattening of the ranges [0..nstp[i]) tagged with i: sum(nstp)
\* entries; row r lies in the period whose rows enclose r, and its step is
\* its offset in that period; the step is 0 at the first row of a period
\* and grows by 1 within it; a period of zero steps gives no row and does
\* not shift the period index of later rows.
C1_ResolverFlattens ==
    Resolved =>
        /\ Len(kstp) = SumSeq(nstp)
        /\ Len(kper) = SumSeq(nstp)
        /\ \A r \in 1..Len(kper) :
              /\ kper[r] \in 0..(Len(nstp) - 1)
              /\ RowsBefore(kper[r]) < r
              /\ r <= RowsBefore(kper[r] + 1)
              /\ kstp[r] = r - 1 - RowsBefore(kper[r])
              /\ (r = 1 \/ kper[r - 1] # kper[r]) => kstp[r] = 0
              /\ (r > 1 /\ kper[r - 1] = kper[r]) => kstp[r] = kstp[r - 1] + 1

\* the lists are built from step counts whose first period has no step
\* and whose second has some
C1_Witness ==
    /\ Resolved
    /\ Len(nstp) >= 2
    /\ nstp[1] = 0
    /\ nstp[2] > 1
    /\ kper = [r \in 1..nstp[2] |-> 1]

\* the columns of ggo_last
LastColumns == {"time", "stage", "flow", "datetime", "kstp"}

\* the last row of ggo tagged with period k
LastRowOf(k) ==
    CHOOSE r \in 1..Len(ggo) :
        ggo[r].kper = k /\ \A q \in 1..Len(ggo) : ggo[q].kper = k => q <= r

\* C2: the last-step table has exactly one row per distinct period, in
\* period order, and that row is the last row of the period (the largest
\* step), every column taken from that same row.
C2_LastRowPerPeriod ==
    pc = "done" =>
        /\ ColumnOf(ggo_last, "kper") = SortedSeq({ggo[r].kper : r \in 1..Len(ggo)})
        /\ \A g \in 1..Len(ggo_last) :
              \A c \in LastColumns :
                  ggo_last[g][c] = ggo[LastRowOf(ggo_last[g].kper)][c]

\* the time mapping has been done
TimeMapped == pc \in {"resolve", "tag", "last", "done"}

\* C5: every row carries the timestamp start + its own elapsed days, with
\* no loss for fractional days, and is indexed by that timestamp; 59.5
\* days after 2014-01-01 is 2014-03-01T12:00.
C5_TimeMapper ==
    TimeMapped =>
        /\ pc = "resolve" => ggoIndex.kind = "datetime"
        /\ Len(ggoIndex.labels) = Len(ggo)
        /\ \A r \in 1..Len(ggo) :
              /\ ggo[r].time # NaN =>
                    (ggo[r].datetime - start_ts) * TicksPerDay = ggo[r].time * HoursPerDay
              /\ ggoIndex.kind = "datetime" => ggoIndex.labels[r] = ggo[r].datetime
              /\ 2 * ggo[r].time = 119 * TicksPerDay =>
                    Calendar(ggo[r].datetime) =
                        [year |-> 2014, month |-> 3, day |-> 1, hour |-> 12]

\* a row 59.5 days after the start has been mapped and indexed
C5_Witness ==
    /\ pc = "resolve"
    /\ \E r \in 1..Len(ggo) :
          2 * ggo[r].time = 119 * TicksPerDay /\ ggoIndex.labels[r] = ggo[r].datetime

\* C6: after a failed solver run the read of the gage file fails (file not
\* found): the pipeline never goes past the read.
C6_FailedRunStopsPipeline ==
    runOk = "failed" =>
        /\ pc \notin {"timemap", "resolve", "tag", "last", "done"}
        /\ pc = "error" => ~disk.exists

\* every label is a timestamp and the labels strictly increase
StrictlyIncreasing(labels) ==
    /\ \A r \in 1..Len(labels) : labels[r] # NaT
    /\ \A r \in 1..Len(labels) : \A q \in 1..Len(labels) : r < q => labels[r] < labels[q]

\* C8: the time index of the gage table (after the time mapping) and of
\* the last-step table (after its re-indexing) strictly increases, with no
\* timestamp twice.
C8_TimestampsStrictlyIncreasing ==
    /\ (TimeMapped /\ ggoIndex.kind = "datetime") => StrictlyIncreasing(ggoIndex.labels)
    /\ pc = "done" => StrictlyIncreasing(ggo_lastIndex)

\* the tagging cell has completed
Tagged == pc \in {"last", "done"}

\* C9: when the tagging completes the gage output has sum(nstp) rows and
\* row r carries the r-th pair of the resolver; when the gage output has
\* another number of rows the tagging fails and leaves no row tagged.
C9_TagOnlyWhenRowsMatch ==
    /\ Tagged =>
          /\ Len(disk.rows) = SumSeq(nstp)
          /\ Len(ggo) = SumSeq(nstp)
          /\ \A r \in 1..Len(ggo) : ggo[r].kstp = kstp[r] /\ ggo[r].kper = kper[r]
    /\ (pc \in {"last", "done", "error"} /\ disk.exists /\ Len(disk.rows) # SumSeq(nstp)) =>
          /\ pc = "error"
          /\ \A r \in 1..Len(ggo) : ggo[r].kstp = NaN /\ ggo[r].kper = NaN

-----------------------------------------------------------------------------
(* Bounds of the observed-data series *)

\* longest free observed series
MaxObs == 3
\* largest observed flow value of a free series
MaxVal == 2

-----------------------------------------------------------------------------
(* Quantile Filter and Monthly Averager: cells 522-543 *)

\* the quantile of a series with no value
NoQuant == [num |-> NaN, den |-> 1]

\* Series.quantile skips the nulls
NonNull(vals) == SelectSeq(vals, LAMBDA v : v # NaN)

\* the values in ascending order
RECURSIVE InsertSorted(_, _)
InsertSorted(s, v) ==
    IF s = <<>> THEN <<v>>
    ELSE IF v <= Head(s) THEN <<v>> \o s
    ELSE <<Head(s)>> \o InsertSorted(Tail(s), v)

RECURSIVE SortValues(_)
SortValues(s) ==
    IF s = <<>> THEN <<>> ELSE InsertSorted(SortValues(Tail(s)), Head(s))

\* Series.quantile(q), interpolation 'linear': with the values sorted and
\* pos = (n - 1) * q, the value at floor(pos) plus the fraction of pos times
\* the step to the next value; kept as a fraction over q's denominator
Quantile(vals, q) ==
    LET s == SortValues(NonNull(vals))
        n == Len(s)
        pos == (n - 1) * q.num
        lo == pos \div q.den
        rem == pos % q.den
        hi == IF rem > 0 THEN lo + 1 ELSE lo
    IN  IF n = 0 THEN NoQuant
        ELSE [num |-> q.den * s[lo + 1] + rem * (s[hi + 1] - s[lo + 1]), den |-> q.den]

\* a variant of the comparison that also keeps the values at the quantile
AtMost(v, qv) == v # NaN /\ qv.num # NaN /\ v * qv.den <= qv.num

\* df[4] < quant: a comparison with nan is False
LessThan(v, qv) == v # NaN /\ qv.num # NaN /\ v * qv.den < qv.num

\* dfq.index.month
MonthColumn(frame) == [r \in 1..Len(frame) |-> Calendar(frame[r].date).month]

\* the mean of the values of one group: [sum, n], the nulls skipped
GroupMean(frame, months, m) ==
    LET vals == NonNull(ColumnOf(SelectSeq(frame, LAMBDA row : Calendar(row.date).month = m), "val"))
    IN  [sum |-> SumSeq(vals), n |-> Len(vals)]

\* a variant of the aggregation that emits every calendar month, the
\* months with no row as zero
MeanByMonthAllMonths(frame) ==
    [index |-> [m \in 1..12 |-> m],
     rows |-> [m \in 1..12 |-> GroupMean(frame, MonthColumn(frame), m)]]

\* dfq.groupby(dfq.index.month).mean(): one entry per month that has a row
MeanByMonth(frame) ==
    LET months == MonthColumn(frame)
        ks == GroupKeys(months)
    IN  [index |-> ks,
         rows |-> [g \in 1..Len(ks) |-> GroupMean(frame, months, ks[g])]]

-----------------------------------------------------------------------------
(* Alignment: cell 578 *)

\* the last day of month m of year y, at midnight
MonthEnd(y, m) == Timestamp(y, m, 1) + (CumDays[m + 1] - CumDays[m] - 1) * HoursPerDay

\* pd.date_range(start, end, freq='M'): the month ends from start to end
DateRangeM(start, end) ==
    SortedSeq({t \in {MonthEnd(y, m) : y \in Calendar(start).year..Calendar(end).year, m \in 1..12} :
                  start <= t /\ t <= end})

\* a variant of the anchors that starts at the first month of the year
AlignAnchorsFromJanuary == DateRangeM(Timestamp(2014, 1, 1), Timestamp(2015, 1, 1))

\* pd.date_range('2014-03', '2015-01', freq='M')
AlignAnchors == DateRangeM(Timestamp(2014, 3, 1), Timestamp(2015, 1, 1))

-----------------------------------------------------------------------------
(* The observed-data pipeline, cell by cell *)

\* the thresholds: the notebook sets qthresh = 0.5
QVals ==
    {[num |-> 0, den |-> 1], [num |-> 1, den |-> 4], [num |-> 1, den |-> 2],
     [num |-> 3, den |-> 4], [num |-> 1, den |-> 1]}

\* dates of the free series: two months of 2014 and the first month of 2015
ObsDates == {Timestamp(2014, 1, 1), Timestamp(2014, 2, 10), Timestamp(2015, 1, 6)}

ObsRows == [date : ObsDates, val : {NaN} \cup (1..MaxVal)]

\* every series of at most MaxObs rows
FreeSeries == UNION {[1..n -> ObsRows] : n \in 0..MaxObs}

\* a year of record: one low flow in each month of a..b but month g, and
\* one peak flow in month b
MonthlySeries(a, b, g) ==
    LET ms == SortedSeq((a..b) \ {g})
    IN  [k \in 1..Len(ms) |-> [date |-> Timestamp(2014, ms[k], 15), val |-> 1]]
            \o <<[date |-> Timestamp(2014, b, 20), val |-> 2]>>

YearSeries ==
    {MonthlySeries(a, b, g) : a \in 1..12, b \in 1..12, g \in 0..12} \ {<<>>}

\* the series 1..10, one value a day
TenSeries == [k \in 1..10 |-> [date |-> Timestamp(2014, 1, k), val |-> k]]

InitObs ==
    /\ pcO = "quantile"
    /\ df \in FreeSeries \cup YearSeries \cup {TenSeries}
    /\ qthresh \in QVals
    /\ quant = NoQuant
    /\ dfq = <<>>
    /\ dfm = <<>>
    /\ dfmIndex = [kind |-> "month", labels |-> <<>>]
    /\ IdleGage
    /\ IdleSfr

\* quant = df[4].quantile(qthresh)
QuantileCell ==
    /\ pcO = "quantile"
    /\ quant' = Quantile(ColumnOf(df, "val"), qthresh)
    /\ pcO' = "filter"
    /\ UNCHANGED <<df, qthresh, dfq, dfm, dfmIndex>>
    /\ UNCHANGED <<gageVars, sfrVars>>

\* dfq = df[4].loc[df[4] < quant]
FilterCell ==
    /\ pcO = "filter"
    /\ dfq' = SelectSeq(df, LAMBDA row : LessThan(row.val, quant))
    /\ pcO' = "average"
    /\ UNCHANGED <<df, qthresh, quant, dfm, dfmIndex>>
    /\ UNCHANGED <<gageVars, sfrVars>>

\* dfm = dfq.groupby(dfq.index.month).mean()
AverageCell ==
    /\ pcO = "average"
    /\ dfm' = MeanByMonth(dfq).rows
    /\ dfmIndex' = [kind |-> "month", labels |-> MeanByMonth(dfq).index]
    /\ pcO' = "align"
    /\ UNCHANGED <<df, qthresh, quant, dfq>>
    /\ UNCHANGED <<gageVars, sfrVars>>

\* dfm.index = pd.date_range('2014-03', '2015-01', freq='M')
AlignCell ==
    /\ pcO = "align"
    /\ Len(AlignAnchors) = Len(dfm)
    /\ dfmIndex' = [kind |-> "datetime", labels |-> AlignAnchors]
    /\ pcO' = "aligned"
    /\ UNCHANGED <<df, qthresh, quant, dfq, dfm>>
    /\ UNCHANGED <<gageVars, sfrVars>>

\* the assignment raises ValueError (length mismatch): dfm is left as it was
AlignRaises ==
    /\ pcO = "align"
    /\ Len(AlignAnchors) # Len(dfm)
    /\ pcO' = "error"
    /\ UNCHANGED <<df, qthresh, quant, dfq, dfm, dfmIndex>>
    /\ UNCHANGED <<gageVars, sfrVars>>

NextObs ==
    \/ QuantileCell
    \/ FilterCell
    \/ AverageCell
    \/ AlignCell
    \/ AlignRaises

SpecObs == InitObs /\ [][NextObs]_vars

-----------------------------------------------------------------------------
(* Properties of the observed-data pipeline *)

\* the rows of df that hold a value
ValidRows == {i \in 1..Len(df) : df[i].val # NaN}

\* the k-th order statistic of the values (k counted from 0): the value
\* with at most k values below it and more than k values at or below it
OrderStat(k) ==
    CHOOSE v \in {df[i].val : i \in ValidRows} :
        /\ Cardinality({i \in ValidRows : df[i].val < v}) <= k
        /\ k < Cardinality({i \in ValidRows : df[i].val <= v})

\* the q-th quantile by linear interpolation between order statistics,
\* times q's denominator
InterpolatedQuantile ==
    LET n == Cardinality(ValidRows)
        pos == (n - 1) * qthresh.num
        lo == pos \div qthresh.den
        rem == pos % qthresh.den
        up == IF lo + 1 <= n - 1 THEN lo + 1 ELSE lo
    IN  qthresh.den * OrderStat(lo) + rem * (OrderStat(up) - OrderStat(lo))

\* row j of df lies strictly below the quantile
Below(j) == j \in ValidRows /\ df[j].val * qthresh.den < InterpolatedQuantile

QuantileDone == pcO \in {"filter", "average", "align", "aligned", "error"}
Filtered == pcO \in {"average", "align", "aligned", "error"}
Averaged == pcO \in {"align", "aligned", "error"}

\* C3: the quantile is the linear interpolation between order statistics,
\* and the retained rows are exactly the rows strictly below it, in their
\* order: none at or above the quantile is kept, none below it is dropped;
\* for q = 0.5 on 1..10 the quantile is 5.5 and the retained values 1..5.
C3_QuantileFilter ==
    /\ (QuantileDone /\ ValidRows # {}) =>
          quant = [num |-> InterpolatedQuantile, den |-> qthresh.den]
    /\ (QuantileDone /\ ValidRows = {}) => quant = NoQuant
    /\ Filtered =>
          /\ ValidRows = {} => dfq = <<>>
          /\ ValidRows # {} =>
                /\ \A i \in 1..Len(dfq) :
                      dfq[i].val # NaN /\ dfq[i].val * qthresh.den < InterpolatedQuantile
                /\ Len(dfq) = Cardinality({j \in 1..Len(df) : Below(j)})
                /\ \A j \in 1..Len(df) :
                      Below(j) =>
                          Cardinality({i \in 1..Len(dfq) : dfq[i] = df[j]}) =
                              Cardinality({k \in 1..Len(df) : df[k] = df[j]})
                /\ \A i \in 1..Len(dfq) : \A k \in 1..Len(dfq) :
                      i < k => \E a \in 1..Len(df) : \E b \in 1..Len(df) :
                                  a < b /\ df[a] = dfq[i] /\ df[b] = dfq[k]
          /\ (ColumnOf(df, "val") = <<1, 2, 3, 4, 5, 6, 7, 8, 9, 10>> /\ 2 * qthresh.num = qthresh.den) =>
                /\ 2 * quant.num = 11 * quant.den
                /\ ColumnOf(dfq, "val") = <<1, 2, 3, 4, 5>>

\* the series 1..10 has been filtered at q = 0.5
C3_Witness ==
    /\ Filtered
    /\ ColumnOf(df, "val") = <<1, 2, 3, 4, 5, 6, 7, 8, 9, 10>>
    /\ 2 * qthresh.num = qthresh.den
    /\ Len(dfq) = 5

\* the retained rows of calendar month m
RetainedIn(m) == {i \in 1..Len(dfq) : Calendar(dfq[i].date).month = m}

\* the months that have a retained row
RetainedMonths == {m \in 1..12 : RetainedIn(m) # {}}

RECURSIVE SumVals(_)
SumVals(S) ==
    IF S = {} THEN 0
    ELSE LET i == CHOOSE x \in S : TRUE IN dfq[i].val + SumVals(S \ {i})

\* C4: the keys of the monthly means are exactly the calendar months (the
\* year ignored) that have a retained row, in ascending order, each with
\* the arithmetic mean of its retained values; a month with no retained
\* row has no entry, and no entry is zero or null.
C4_MonthlyMeans ==
    (Averaged /\ dfmIndex.kind = "month") =>
        /\ Len(dfm) = Len(dfmIndex.labels)
        /\ {dfmIndex.labels[g] : g \in 1..Len(dfm)} = RetainedMonths
        /\ Len(dfm) = Cardinality(RetainedMonths)
        /\ \A g \in 1..Len(dfm) :
              /\ dfm[g].n = Cardinality(RetainedIn(dfmIndex.labels[g]))
              /\ dfm[g].n > 0
              /\ dfm[g].sum = SumVals(RetainedIn(dfmIndex.labels[g]))
              /\ dfm[g].sum > 0

\* the means are those of a series with two retained rows of the same
\* month in different years, and a month of the data has no retained row
C4_Witness ==
    /\ Averaged
    /\ dfmIndex.kind = "month"
    /\ \E i \in 1..Len(dfq) : \E k \in 1..Len(dfq) :
          /\ Calendar(dfq[i].date).month = Calendar(dfq[k].date).month
          /\ Calendar(dfq[i].date).year # Calendar(dfq[k].date).year
    /\ \E j \in 1..Len(df) : Calendar(df[j].date).month \notin RetainedMonths

\* the months of the retained rows, ascending: the months the means were
\* computed from, in the order of dfm
RetainedMonthSeq == SortedSeq(RetainedMonths)

MarchToDecember == <<3, 4, 5, 6, 7, 8, 9, 10, 11, 12>>

\* the label is the last day of its month
IsMonthEnd(t) == Calendar(t).hour = 0 /\ Calendar(t + HoursPerDay).day = 1

\* C10 as claimed: after the alignment every monthly mean is anchored at a
\* month end of the month it was computed from, whatever months were
\* retained.
C10_EveryMeanAtItsOwnMonth ==
    pcO = "aligned" =>
        \A g \in 1..Len(dfm) :
            /\ IsMonthEnd(dfmIndex.labels[g])
            /\ Calendar(dfmIndex.labels[g]).month = RetainedMonthSeq[g]

\* C10 amended: the alignment completes exactly when ten months have a
\* retained row and otherwise raises, leaving the month keys; it anchors
\* the g-th retained month (ascending) at the g-th month end of March to
\* December 2014, so the means are anchored at their own months exactly
\* when the retained months are March to December.
C10_AlignedByPosition ==
    /\ pcO = "aligned" =>
          /\ Cardinality(RetainedMonths) = 10
          /\ Len(dfm) = 10
          /\ Len(dfmIndex.labels) = 10
          /\ \A g \in 1..Len(dfm) :
                /\ IsMonthEnd(dfmIndex.labels[g])
                /\ Calendar(dfmIndex.labels[g]).year = 2014
                /\ Calendar(dfmIndex.labels[g]).month = MarchToDecember[g]
                /\ dfm[g].n = Cardinality(RetainedIn(RetainedMonthSeq[g]))
          /\ (\A g \in 1..Len(dfm) : Calendar(dfmIndex.labels[g]).month = RetainedMonthSeq[g])
                <=> RetainedMonthSeq = MarchToDecember
    /\ (pcO = "error") =>
          /\ Cardinality(RetainedMonths) # 10
          /\ dfmIndex = [kind |-> "month", labels |-> RetainedMonthSeq]

\* the means of March to December have been aligned
C10_Witness ==
    /\ pcO = "aligned"
    /\ RetainedMonthSeq = MarchToDecember
    /\ dfmIndex.labels[1] = Timestamp(2014, 3, 31)
    /\ dfmIndex.labels[10] = Timestamp(2014, 12, 31)

-----------------------------------------------------------------------------
(* The streamflow-routing pipeline: cells 703-726 *)

\* most reaches of the reach data
MaxReach == 3

\* the segment the notebook selects
SegmentId == 11
\* the (step, period) pair the notebook selects
StepPeriod == <<4, 6>>

\* segments of the reach data: the selected one and another
SegIds == {SegmentId, SegmentId + 1}
\* reach lengths
RchLens == {1, 2}
\* the (step, period) pairs the solver may have written, in output order
OutputTimes == {<<>>, <<<<0, 0>>>>, <<StepPeriod>>, <<<<0, 0>>, StepPeriod>>}

ReachData == UNION {[1..n -> [iseg : SegIds, rchlen : RchLens]] : n \in 0..MaxReach}

\* SfrFile(...).df: one record per reach at each output time
SfrRecords(reaches, times) ==
    [x \in 1..(Len(times) * Len(reaches)) |->
        LET t == ((x - 1) \div Len(reaches)) + 1
            k == ((x - 1) % Len(reaches)) + 1
        IN  [segment |-> reaches[k].iseg,
             kstpkper |-> times[t],
             Qout |-> 10 * t + k,
             Qaquifer |-> 100 * t + k]]

\* a variant of the selection that joins the two conditions with "or"
SelectSegmentEither(frame) ==
    LET hit == SelectSeq(frame, LAMBDA row : row.segment = SegmentId \/ row.kstpkper = StepPeriod)
    IN  [r \in 1..Len(hit) |-> [Qout |-> hit[r].Qout, Qaquifer |-> hit[r].Qaquifer]]

\* sfrdata.loc[(sfrdata.segment == 11) & (sfrdata.kstpkper == (4, 6)), ['Qout', 'Qaquifer']]
SelectSegment(frame) ==
    LET hit == SelectSeq(frame, LAMBDA row : row.segment = SegmentId /\ row.kstpkper = StepPeriod)
    IN  [r \in 1..Len(hit) |-> [Qout |-> hit[r].Qout, Qaquifer |-> hit[r].Qaquifer]]

\* the labels the selection keeps: the positions of the selected records
SelectLabels(frame) ==
    SortedSeq({x \in 1..Len(frame) :
                  frame[x].segment = SegmentId /\ frame[x].kstpkper = StepPeriod})

\* Series.cumsum()
RECURSIVE CumSum(_, _)
CumSum(s, acc) ==
    IF s = <<>> THEN <<>> ELSE <<acc + Head(s)>> \o CumSum(Tail(s), acc + Head(s))

\* rd.loc[rd.iseg == 11, 'rchlen'].cumsum().tolist()
ReachDistance(reaches) ==
    CumSum(ColumnOf(SelectSeq(reaches, LAMBDA row : row.iseg = SegmentId), "rchlen"), 0)

InitSfr ==
    /\ pcS = "select"
    /\ rd \in ReachData
    /\ \E times \in OutputTimes : sfrdata = SfrRecords(rd, times)
    /\ seg11 = <<>>
    /\ seg11Index = <<>>
    /\ dist = <<>>
    /\ IdleGage
    /\ IdleObs

\* seg11 = sfrdata.loc[...]
SelectCell ==
    /\ pcS = "select"
    /\ seg11' = SelectSegment(sfrdata)
    /\ seg11Index' = SelectLabels(sfrdata)
    /\ pcS' = "dist"
    /\ UNCHANGED <<rd, sfrdata, dist>>
    /\ UNCHANGED <<gageVars, obsVars>>

\* dist = rd.loc[rd.iseg == 11, 'rchlen'].cumsum().tolist()
DistCell ==
    /\ pcS = "dist"
    /\ dist' = ReachDistance(rd)
    /\ pcS' = "reindex"
    /\ UNCHANGED <<rd, sfrdata, seg11, seg11Index>>
    /\ UNCHANGED <<gageVars, obsVars>>

\* seg11.index = dist
ReindexCell ==
    /\ pcS = "reindex"
    /\ Len(dist) = Len(seg11)
    /\ seg11Index' = dist
    /\ pcS' = "done"
    /\ UNCHANGED <<rd, sfrdata, seg11, dist>>
    /\ UNCHANGED <<gageVars, obsVars>>

\* the assignment raises ValueError (length mismatch)
ReindexRaises ==
    /\ pcS = "reindex"
    /\ Len(dist) # Len(seg11)
    /\ pcS' = "error"
    /\ UNCHANGED <<rd, sfrdata, seg11, seg11Index, dist>>
    /\ UNCHANGED <<gageVars, obsVars>>

NextSfr ==
    \/ SelectCell
    \/ DistCell
    \/ ReindexCell
    \/ ReindexRaises

SpecSfr == InitSfr /\ [][NextSfr]_vars

-----------------------------------------------------------------------------
(* Properties of the streamflow-routing pipeline *)

\* no record carries the selected segment
SegmentAbsent == \A x \in 1..Len(sfrdata) : sfrdata[x].segment # SegmentId

\* no record carries the selected (step, period) pair
PairAbsent == \A x \in 1..Len(sfrdata) : sfrdata[x].kstpkper # StepPeriod

\* the reaches of the selected segment in the reach data
SegmentReaches == {k \in 1..Len(rd) : rd[k].iseg = SegmentId}

\* C7 as claimed: a filter on a value no record carries gives an empty
\* selection, and the cumulative distance and the re-indexing then
\* complete without error.
C7_AbsentFilterCompletes ==
    (pcS \in {"done", "error"} /\ (SegmentAbsent \/ PairAbsent)) =>
        /\ seg11 = <<>>
        /\ pcS = "done"

\* C7 amended: a filter on a value no record carries gives an empty
\* selection without raising, and the cumulative distance is computed; the
\* re-indexing of the empty selection completes exactly when the reach
\* data holds no reach of the selected segment, and raises when it holds
\* some (the pair is absent, the segment is not).
C7_AbsentFilterEmpty ==
    (SegmentAbsent \/ PairAbsent) =>
        /\ pcS \in {"dist", "reindex", "done", "error"} => seg11 = <<>>
        /\ pcS \in {"reindex", "done", "error"} =>
              /\ Len(dist) = Cardinality(SegmentReaches)
              /\ \A d \in 1..Len(dist) : dist[d] > 0
              /\ \A d \in 2..Len(dist) : dist[d] > dist[d - 1]
        /\ pcS = "done" => (SegmentReaches = {} /\ seg11Index = <<>>)
        /\ pcS = "error" => (SegmentReaches # {} /\ PairAbsent)
        /\ pcS \in {"done", "error"} => (pcS = "done" <=> SegmentReaches = {})

\* records exist, none of the selected segment, and the three cells have
\* completed on the empty selection
C7_Witness ==
    /\ pcS = "done"
    /\ sfrdata # <<>>
    /\ SegmentAbsent
    /\ seg11 = <<>>

====
